---- MODULE Spec2Model ----
(***************************************************************************)
(* The two-axis piezo controller of piezo_gui: the KPZ101 device class     *)
(* (KPZ101.py) and the Qt main window that drives two of them (GUI.py).    *)
(*                                                                         *)
(* Voltages and jog steps are System.Decimal values in the source; here    *)
(* they are integers (whole volts).  A time.sleep() changes no state: the  *)
(* single Qt thread is blocked while it lasts, so every handler is one     *)
(* atomic action.                                                          *)
(*                                                                         *)
(* A run follows the operator at the controls of one axis (focus), either  *)
(* one; the other axis stays as constructed and is polled by the timer.    *)
(* No handler of one axis reads or writes the other axis's objects, so     *)
(* this bounds the interleavings and not what a handler can do.            *)
(*                                                                         *)
(* Five specifications share the state and the handlers:                   *)
(*   Spec      both controllers constructed; every control of the window   *)
(*             and the timer;                                              *)
(*   SpecLife  from before Ui.__init__: the enumeration of controllers,    *)
(*             the constructors, serial reassignment, unplugging and       *)
(*             closeEvent, with the timer and the controls that connect,   *)
(*             disconnect, zero and flip an axis;                          *)
(*   SpecJog   KPZ101.jogVoltage called with any reading held;             *)
(*   SpecSettle  the event loop around setVoltage and setJogStep, each     *)
(*             split at its time.sleep(): what the operator and the timer  *)
(*             send while the thread sleeps waits in the thread's event    *)
(*             queue and is delivered, in order, once the handler has      *)
(*             returned (Qt delivers posted events that way);              *)
(*   SpecPopup the serial popup, the timer it stops and starts, and the    *)
(*             connections the signals gather when setupConnections runs   *)
(*             again: a signal runs every slot connected to it, once per   *)
(*             connection.  The other specifications follow a window       *)
(*             whose signals have the connections of the first             *)
(*             setupConnections and whose timer runs.                      *)
(*                                                                         *)
(* The Thorlabs driver is not part of the repository.  What the model      *)
(* takes from it is written out in the device_* operators below:           *)
(*   - a command sent through a handle that is not connected raises        *)
(*     (DeviceNotReady) and changes nothing;                               *)
(*   - the controller remembers the last commanded voltage ("target");     *)
(*     while the output stage is disabled, and after a re-enable until     *)
(*     the next command, the output reads 0 (KPZ101.py:89-98);             *)
(*   - the firmware clamps a jog to [0, MaxOutputVoltage];                 *)
(*   - a controller that is unplugged drops out of the enumeration, its    *)
(*     handle is no longer connected and ConnectDevice raises;             *)
(*   - a handle created for a controller that another handle has open      *)
(*     reports that controller's connection, so that a second Connect is   *)
(*     not issued;                                                         *)
(*   - subscripting the method GetDeviceList (KPZ101.py:152) raises        *)
(*     TypeError, as subscripting a method does in Python;                 *)
(*   - whether a controller's settings are initialized once the 10-second  *)
(*     wait is over is the controller's affair (IsSettingsInitialized);    *)
(*     when they are not, the assert that follows the wait raises          *)
(*     AssertionError, unless the wait itself has raised before it.        *)
(***************************************************************************)
EXTENDS Integers, Sequences, FiniteSets, TLC

\* The maximum output voltage the devices report (GetMaxOutputVoltage).
MaxVoltage == 4

\* KPZ101.setJogSteps: new_step <= Decimal(10)
JogStepLimit == 10

Axes == {"x", "y"}

\* The serial numbers of the two controllers (main.py:39-40).
SerialX == "29251927"
SerialY == "29251900"
Serials == {SerialX, SerialY}

\* A third controller that may be on the bus, and every serial a run names.
SerialZ == "29251901"
AllSerials == Serials \cup {SerialZ}

\* What the operator may type into a line edit: a number, or something
\* float() cannot parse.
Numeric(v) == [numeric |-> TRUE, value |-> v]
NoText == [numeric |-> FALSE, value |-> 0]
VoltageInputs == {-1, 0, 2, MaxVoltage, MaxVoltage + 1}
JogStepInputs == {-1, 0, 1, JogStepLimit, JogStepLimit + 1}
VoltageTexts == {Numeric(v) : v \in VoltageInputs} \cup {NoText}
JogStepTexts == {Numeric(v) : v \in JogStepInputs} \cup {NoText}

\* What the devices may report when the controllers are constructed.
InitVoltages == {0}
InitJogSteps == {1}

JogButtons == {"buttonMoveLeft", "buttonMoveRight", "buttonMoveUp", "buttonMoveDown"}
LifeButtons == {"buttonDisconnectX", "buttonConnectX", "buttonDisableX", "buttonEnableX",
                "buttonDisconnectY", "buttonConnectY", "buttonDisableY", "buttonEnableY"}

VARIABLES
    device,            \* serial -> the physical controller behind the driver handle
    KPZ101_x,          \* Ui.KPZ101_x: the KPZ101 object of the horizontal axis
    KPZ101_y,          \* Ui.KPZ101_y: the KPZ101 object of the vertical axis
    direction_stateX,  \* Ui.direction_stateX
    direction_stateY,  \* Ui.direction_stateY
    clicked,           \* jog button -> the slot its clicked signal is connected to
    enabled,           \* jog button -> QPushButton.isEnabled()
    visible,           \* connect/disconnect/enable/disable button -> shown
    focus,             \* the axis whose controls the operator uses in this run
    last,              \* the handler that ran last: what it was given, what it
                       \* sent to the driver, what it returned or raised
    deviceList,        \* DeviceManagerCLI.GetDeviceList(): the serials enumerated
    saved,             \* Ui.serial_x, Ui.serial_y as saveSerials wrote them
    app,               \* "starting", "running", "crashed" or "closed"
    stopped,           \* axis -> stop() has run on the KPZ101 object it holds
    err,               \* the exception a KPZ101 constructor raised in the last
                       \* startup or reassignment
    leaked,            \* serials opened by a KPZ101 object that was dropped
    settling,          \* the axis whose handler is inside a time.sleep(), or "none"
    pending,           \* the events waiting in the event queue of the Qt thread
    connections,       \* signal -> how many times its slot is connected to it
    timerActive,       \* QTimer.isActive()
    popupOpen          \* the serial popup is shown

vars == <<device, KPZ101_x, KPZ101_y, direction_stateX, direction_stateY,
          clicked, enabled, visible, focus, last,
          deviceList, saved, app, stopped, err, leaked, settling, pending,
          connections, timerActive, popupOpen>>

\* The event loop between two handlers: no handler asleep, nothing waiting.
loop == <<settling, pending>>

\* The connections of the signals, the timer and the popup.
wiring == <<connections, timerActive, popupOpen>>

\* The signals setupConnections connects: those resetConnections disconnects
\* first when the serials are reassigned, and those it leaves connected.
ResetSignals ==
    JogButtons \cup {"lineEditSetVX", "lineEditSetJX", "buttonSwitchX",
                     "lineEditSetVY", "lineEditSetJY", "buttonSwitchY", "timer"}
KeptSignals ==
    LifeButtons \cup {"buttonSetZeroX", "buttonSetZeroY", "actionChangeSerial"}
Signals == ResetSignals \cup KeptSignals

\* What only construction, reassignment and shutdown change, and the event
\* loop, which a handler that runs as one step leaves as it found it.
registry == <<deviceList, saved, app, stopped, err, leaked, loop, wiring>>

----------------------------------------------------------------------------
(* The driver boundary: one KCubePiezo handle and the controller behind it. *)

\* A handler runs on a context: the KPZ101 object k, its device d, the
\* commands sent to the driver so far, the value the KPZ101 command returned
\* ("nothing" while none has returned) and the exception that is propagating
\* ("none" when there is none).
Ctx(k, d) == [k |-> k, d |-> d, calls |-> <<>>, ret |-> "nothing", exc |-> "none"]

Log(c, call, arg, from) ==
    [c EXCEPT !.calls = Append(@, [call |-> call, arg |-> arg, from |-> from])]

Raise(c, e) == [c EXCEPT !.exc = e]

Clamp(v, hi) == IF v < 0 THEN 0 ELSE IF v > hi THEN hi ELSE v

device_SetOutputVoltage(c, v) ==
    IF c.exc # "none" THEN c
    ELSE LET c1 == Log(c, "SetOutputVoltage", v, 0) IN
         IF ~c.d.IsConnected THEN Raise(c1, "DeviceNotReady")
         ELSE [c1 EXCEPT !.d.target = v,
                         !.d.output = IF c.d.IsEnabled THEN v ELSE @]

device_SetJogSteps(c, step) ==
    IF c.exc # "none" THEN c
    ELSE LET c1 == Log(c, "SetJogSteps", step, 0) IN
         IF ~c.d.IsConnected THEN Raise(c1, "DeviceNotReady")
         ELSE [c1 EXCEPT !.d.jogStep = step]

\* Jog(direction): one step of the device's own jog step from the remembered
\* voltage.  The log keeps the step (signed) and the voltage it starts from.
device_Jog(c, direction) ==
    IF c.exc # "none" THEN c
    ELSE LET step == IF direction = "Increase" THEN c.d.jogStep ELSE 0 - c.d.jogStep
             c1 == Log(c, "Jog", step, c.d.target)
             to == Clamp(c.d.target + step, c.d.MaxOutputVoltage)
         IN  IF ~c.d.IsConnected THEN Raise(c1, "DeviceNotReady")
             ELSE [c1 EXCEPT !.d.target = to,
                             !.d.output = IF c.d.IsEnabled THEN to ELSE @]

device_SetZero(c) ==
    IF c.exc # "none" THEN c
    ELSE LET c1 == Log(c, "SetZero", 0, 0) IN
         IF ~c.d.IsConnected THEN Raise(c1, "DeviceNotReady")
         ELSE [c1 EXCEPT !.d.target = 0, !.d.output = 0]

device_StopPolling(c) ==
    IF c.exc # "none" THEN c
    ELSE [Log(c, "StopPolling", 0, 0) EXCEPT !.d.polling = FALSE]

device_StartPolling(c) ==
    IF c.exc # "none" THEN c
    ELSE [Log(c, "StartPolling", 250, 0) EXCEPT !.d.polling = TRUE]

device_Disconnect(c) ==
    IF c.exc # "none" THEN c
    ELSE [Log(c, "Disconnect", 0, 0) EXCEPT !.d.IsConnected = FALSE]

device_ConnectDevice(c) ==
    IF c.exc # "none" THEN c
    ELSE LET c1 == Log(c, "ConnectDevice", 0, 0) IN
         IF ~c.d.plugged THEN Raise(c1, "DeviceNotReady")
         ELSE [c1 EXCEPT !.d.IsConnected = TRUE]

\* Mutant of EnableDevice: the remembered voltage is reset with the output.
device_EnableDevice_resets(c) ==
    IF c.exc # "none" THEN c
    ELSE LET c1 == Log(c, "EnableDevice", 0, 0) IN
         IF ~c.d.IsConnected THEN Raise(c1, "DeviceNotReady")
         ELSE [c1 EXCEPT !.d.IsEnabled = TRUE, !.d.target = 0]

device_EnableDevice(c) ==
    IF c.exc # "none" THEN c
    ELSE LET c1 == Log(c, "EnableDevice", 0, 0) IN
         IF ~c.d.IsConnected THEN Raise(c1, "DeviceNotReady")
         ELSE [c1 EXCEPT !.d.IsEnabled = TRUE]

device_DisableDevice(c) ==
    IF c.exc # "none" THEN c
    ELSE LET c1 == Log(c, "DisableDevice", 0, 0) IN
         IF ~c.d.IsConnected THEN Raise(c1, "DeviceNotReady")
         ELSE [c1 EXCEPT !.d.IsEnabled = FALSE, !.d.output = 0]

\* GetOutputVoltage(): the voltage at the output, read through the handle.
device_GetOutputVoltage(c) == c.d.output

----------------------------------------------------------------------------
(* class KPZ101 (KPZ101.py) *)

\* A method without a return statement returns None, unless it raised.
Return(c) == IF c.exc = "none" THEN [c EXCEPT !.ret = "None"] ELSE c

KPZ101_getVoltage(k) == k.cvoltage

KPZ101_getJogSteps(k) == k.jogsteps

KPZ101_getMaxVoltage(c) == c.d.MaxOutputVoltage

KPZ101_isConnected(c) == c.d.IsConnected

KPZ101_update(c) ==
    IF c.exc # "none" THEN c
    ELSE IF ~c.d.IsConnected THEN Raise(c, "DeviceNotReady")
    ELSE [c EXCEPT !.k.cvoltage = device_GetOutputVoltage(c)]

KPZ101_setZero(c) == Return(device_SetZero(c))

\* Mutants of setVoltage: the ceiling excluded; the floor not checked.
KPZ101_setVoltage_exclusive(c, voltage) ==
    IF c.exc # "none" THEN c
    ELSE IF voltage >= 0 /\ voltage < c.k.max_voltage
         THEN Return(device_SetOutputVoltage(c, voltage))
         ELSE Return(c)

KPZ101_setVoltage_nofloor(c, voltage) ==
    IF c.exc # "none" THEN c
    ELSE IF voltage <= c.k.max_voltage
         THEN Return(device_SetOutputVoltage(c, voltage))
         ELSE Return(c)

KPZ101_setVoltage(c, voltage) ==
    IF c.exc # "none" THEN c
    ELSE IF voltage >= 0 /\ voltage <= c.k.max_voltage
         THEN Return(device_SetOutputVoltage(c, voltage))
         ELSE Return(c)

\* Mutants of setJogSteps: an out-of-range step raises; the limit excluded.
KPZ101_setJogSteps_raises(c, new_step) ==
    IF c.exc # "none" THEN c
    ELSE IF new_step >= 0 /\ new_step <= JogStepLimit
         THEN Return(device_SetJogSteps([c EXCEPT !.k.jogsteps = new_step], new_step))
         ELSE Raise(c, "ValueError")

KPZ101_setJogSteps_exclusive(c, new_step) ==
    IF c.exc # "none" THEN c
    ELSE IF new_step >= 0 /\ new_step < JogStepLimit
         THEN Return(device_SetJogSteps([c EXCEPT !.k.jogsteps = new_step], new_step))
         ELSE Return(c)

KPZ101_setJogSteps(c, new_step) ==
    IF c.exc # "none" THEN c
    ELSE IF new_step >= 0 /\ new_step <= JogStepLimit
         THEN Return(device_SetJogSteps([c EXCEPT !.k.jogsteps = new_step], new_step))
         ELSE Return(c)

\* Mutant of jogVoltage: the stored voltage is not looked at.
KPZ101_jogVoltage_unguarded(c, boolean) ==
    IF c.exc # "none" THEN c
    ELSE IF boolean THEN Return(device_Jog(c, "Increase"))
                    ELSE Return(device_Jog(c, "Decrease"))

KPZ101_jogVoltage(c, boolean) ==
    IF c.exc # "none" THEN c
    ELSE IF c.k.cvoltage >= 0 /\ c.k.cvoltage <= c.k.max_voltage
         THEN IF boolean THEN Return(device_Jog(c, "Increase"))
                         ELSE Return(device_Jog(c, "Decrease"))
         ELSE Return(c)

KPZ101_disconnect(c) ==
    IF c.exc # "none" THEN c
    ELSE IF c.d.IsConnected
         THEN Return(device_Disconnect(device_StopPolling(c)))
         ELSE Return(c)

\* if not IsSettingsInitialized(): WaitForSettingsInitialized(10000), then
\* assert IsSettingsInitialized() is True.
device_WaitForSettingsInitialized(c) ==
    IF c.exc # "none" THEN c
    ELSE IF c.d.IsSettingsInitialized THEN c
    ELSE Raise(Log(c, "WaitForSettingsInitialized", 10000, 0), "AssertionError")

\* Mutant of connect: the output stage is left as it is.
KPZ101_connect_leavesOutput(c) ==
    IF c.exc # "none" THEN c
    ELSE LET c1 == IF ~c.d.IsConnected THEN device_ConnectDevice(c) ELSE c
         IN  Return(device_WaitForSettingsInitialized(device_StartPolling(c1)))

KPZ101_connect(c) ==
    IF c.exc # "none" THEN c
    ELSE LET c1 == IF ~c.d.IsConnected THEN device_ConnectDevice(c) ELSE c
         IN  Return(device_WaitForSettingsInitialized(
                        device_EnableDevice(device_StartPolling(c1))))

KPZ101_disable(c) == Return(device_DisableDevice(c))

KPZ101_enable(c) == Return(device_EnableDevice(c))

----------------------------------------------------------------------------
(* class Ui (GUI.py): the handlers *)

Kpz(a) == IF a = "x" THEN KPZ101_x ELSE KPZ101_y

\* self.kpzx / self.kpzy: the KPZ101 object of the axis and its device.
Start(a) == Ctx(Kpz(a), device[Kpz(a).serial_no])

Ui_update(c) ==
    IF c.exc # "none" THEN c
    ELSE IF KPZ101_isConnected(c) THEN KPZ101_update(c) ELSE c

Ui_setZero(c) == Ui_update(KPZ101_setZero(c))

Ui_increaseVoltage(c) == Ui_update(KPZ101_jogVoltage(c, TRUE))

Ui_decreaseVoltage(c) == Ui_update(KPZ101_jogVoltage(c, FALSE))

\* Decimal(float(lineEditV.text())): float() raises ValueError on text that
\* is no number.
Ui_setVoltage(c, text) ==
    IF ~text.numeric THEN Raise(c, "ValueError")
    ELSE Ui_update(KPZ101_setVoltage(c, text.value))

\* KPZ101 has no method getJogStepsFloat: the display of the new step raises
\* AttributeError after the command has run.
Ui_setJogStep(c, text) ==
    IF ~text.numeric THEN Raise(c, "ValueError")
    ELSE LET c1 == KPZ101_setJogSteps(c, text.value)
         IN  IF c1.exc = "none" THEN Raise(c1, "AttributeError") ELSE c1

Ui_disconnectPiezo(c) == KPZ101_disconnect(c)

Ui_connectPiezo(c) == KPZ101_connect(c)

Ui_enablePiezo(c) == KPZ101_enable(c)

Ui_disablePiezo(c) == KPZ101_disable(c)

\* Mutants of checkJogLimitX: the direction flag not consulted near zero; the
\* buttons left as they are when neither limit is near.
checkJogLimitX_ignoresDirection(en, c, direction) ==
    IF KPZ101_isConnected(c)
    THEN LET current_voltage == KPZ101_getVoltage(c.k)
             current_jog == KPZ101_getJogSteps(c.k)
             max_voltage == KPZ101_getMaxVoltage(c)
         IN  IF current_voltage <= current_jog
             THEN [en EXCEPT !["buttonMoveRight"] = FALSE, !["buttonMoveLeft"] = TRUE]
             ELSE IF current_voltage + current_jog >= max_voltage
             THEN IF direction
                  THEN [en EXCEPT !["buttonMoveLeft"] = FALSE, !["buttonMoveRight"] = TRUE]
                  ELSE [en EXCEPT !["buttonMoveRight"] = FALSE, !["buttonMoveLeft"] = TRUE]
             ELSE [en EXCEPT !["buttonMoveRight"] = TRUE, !["buttonMoveLeft"] = TRUE]
    ELSE en

checkJogLimitX_keeps(en, c, direction) ==
    IF KPZ101_isConnected(c)
    THEN LET current_voltage == KPZ101_getVoltage(c.k)
             current_jog == KPZ101_getJogSteps(c.k)
             max_voltage == KPZ101_getMaxVoltage(c)
         IN  IF current_voltage <= current_jog
             THEN IF direction
                  THEN [en EXCEPT !["buttonMoveRight"] = FALSE, !["buttonMoveLeft"] = TRUE]
                  ELSE [en EXCEPT !["buttonMoveLeft"] = FALSE, !["buttonMoveRight"] = TRUE]
             ELSE IF current_voltage + current_jog >= max_voltage
             THEN IF direction
                  THEN [en EXCEPT !["buttonMoveLeft"] = FALSE, !["buttonMoveRight"] = TRUE]
                  ELSE [en EXCEPT !["buttonMoveRight"] = FALSE, !["buttonMoveLeft"] = TRUE]
             ELSE en
    ELSE en

\* Ui.checkJogLimitX: en is the jog buttons' enabled state before the call.
checkJogLimitX(en, c, direction) ==
    IF KPZ101_isConnected(c)
    THEN LET current_voltage == KPZ101_getVoltage(c.k)
             current_jog == KPZ101_getJogSteps(c.k)
             max_voltage == KPZ101_getMaxVoltage(c)
         IN  IF current_voltage <= current_jog
             THEN IF direction
                  THEN [en EXCEPT !["buttonMoveRight"] = FALSE, !["buttonMoveLeft"] = TRUE]
                  ELSE [en EXCEPT !["buttonMoveLeft"] = FALSE, !["buttonMoveRight"] = TRUE]
             ELSE IF current_voltage + current_jog >= max_voltage
             THEN IF direction
                  THEN [en EXCEPT !["buttonMoveLeft"] = FALSE, !["buttonMoveRight"] = TRUE]
                  ELSE [en EXCEPT !["buttonMoveRight"] = FALSE, !["buttonMoveLeft"] = TRUE]
             ELSE [en EXCEPT !["buttonMoveRight"] = TRUE, !["buttonMoveLeft"] = TRUE]
    ELSE en

\* Mutants of checkJogLimitY: the ceiling tested with > ; the ceiling tested
\* before the floor.
checkJogLimitY_strict(en, c, direction) ==
    IF KPZ101_isConnected(c)
    THEN LET current_voltage == KPZ101_getVoltage(c.k)
             current_jog == KPZ101_getJogSteps(c.k)
             max_voltage == KPZ101_getMaxVoltage(c)
         IN  IF current_voltage <= current_jog
             THEN IF direction
                  THEN [en EXCEPT !["buttonMoveDown"] = FALSE, !["buttonMoveUp"] = TRUE]
                  ELSE [en EXCEPT !["buttonMoveUp"] = FALSE, !["buttonMoveDown"] = TRUE]
             ELSE IF current_voltage + current_jog > max_voltage
             THEN IF direction
                  THEN [en EXCEPT !["buttonMoveUp"] = FALSE, !["buttonMoveDown"] = TRUE]
                  ELSE [en EXCEPT !["buttonMoveDown"] = FALSE, !["buttonMoveUp"] = TRUE]
             ELSE [en EXCEPT !["buttonMoveUp"] = TRUE, !["buttonMoveDown"] = TRUE]
    ELSE en

checkJogLimitY_ceilingFirst(en, c, direction) ==
    IF KPZ101_isConnected(c)
    THEN LET current_voltage == KPZ101_getVoltage(c.k)
             current_jog == KPZ101_getJogSteps(c.k)
             max_voltage == KPZ101_getMaxVoltage(c)
         IN  IF current_voltage + current_jog >= max_voltage
             THEN IF direction
                  THEN [en EXCEPT !["buttonMoveUp"] = FALSE, !["buttonMoveDown"] = TRUE]
                  ELSE [en EXCEPT !["buttonMoveDown"] = FALSE, !["buttonMoveUp"] = TRUE]
             ELSE IF current_voltage <= current_jog
             THEN IF direction
                  THEN [en EXCEPT !["buttonMoveDown"] = FALSE, !["buttonMoveUp"] = TRUE]
                  ELSE [en EXCEPT !["buttonMoveUp"] = FALSE, !["buttonMoveDown"] = TRUE]
             ELSE [en EXCEPT !["buttonMoveUp"] = TRUE, !["buttonMoveDown"] = TRUE]
    ELSE en

\* Ui.checkJogLimitY
checkJogLimitY(en, c, direction) ==
    IF KPZ101_isConnected(c)
    THEN LET current_voltage == KPZ101_getVoltage(c.k)
             current_jog == KPZ101_getJogSteps(c.k)
             max_voltage == KPZ101_getMaxVoltage(c)
         IN  IF current_voltage <= current_jog
             THEN IF direction
                  THEN [en EXCEPT !["buttonMoveDown"] = FALSE, !["buttonMoveUp"] = TRUE]
                  ELSE [en EXCEPT !["buttonMoveUp"] = FALSE, !["buttonMoveDown"] = TRUE]
             ELSE IF current_voltage + current_jog >= max_voltage
             THEN IF direction
                  THEN [en EXCEPT !["buttonMoveUp"] = FALSE, !["buttonMoveDown"] = TRUE]
                  ELSE [en EXCEPT !["buttonMoveDown"] = FALSE, !["buttonMoveUp"] = TRUE]
             ELSE [en EXCEPT !["buttonMoveUp"] = TRUE, !["buttonMoveDown"] = TRUE]
    ELSE en

\* A connection of a jog button's clicked signal: the slot and the device
\* list (self.kpzx or self.kpzy) its lambda passes.
Slot(name, a) == [slot |-> name, axis |-> a]

\* Ui.switchDirectionX: the new connections of the two horizontal buttons.
switchDirectionX(cl, direction) ==
    IF direction
    THEN [cl EXCEPT !["buttonMoveLeft"] = Slot("decreaseVoltage", "x"),
                    !["buttonMoveRight"] = Slot("increaseVoltage", "x")]
    ELSE [cl EXCEPT !["buttonMoveLeft"] = Slot("increaseVoltage", "x"),
                    !["buttonMoveRight"] = Slot("decreaseVoltage", "x")]

\* Mutant of switchDirectionY: both branches make the same connections.
switchDirectionY_same(cl, direction) ==
    [cl EXCEPT !["buttonMoveUp"] = Slot("decreaseVoltage", "y"),
               !["buttonMoveDown"] = Slot("increaseVoltage", "y")]

\* Ui.switchDirectionY
switchDirectionY(cl, direction) ==
    IF direction
    THEN [cl EXCEPT !["buttonMoveUp"] = Slot("decreaseVoltage", "y"),
                    !["buttonMoveDown"] = Slot("increaseVoltage", "y")]
    ELSE [cl EXCEPT !["buttonMoveUp"] = Slot("increaseVoltage", "y"),
                    !["buttonMoveDown"] = Slot("decreaseVoltage", "y")]

----------------------------------------------------------------------------
(* The state after Ui.__init__: both controllers constructed, the widgets    *)
(* connected by setupConnections, the timer started.                         *)

\* KPZ101.__init__ on a device that reports voltage v and jog step j: the
\* device is connected, polling and enabled when the constructor returns.
NewDevice(v, j) ==
    [IsConnected |-> TRUE, IsEnabled |-> TRUE, polling |-> TRUE,
     target |-> v, output |-> v, jogStep |-> j, MaxOutputVoltage |-> MaxVoltage,
     plugged |-> TRUE, IsSettingsInitialized |-> TRUE]

NewKPZ101(serial_no, d) ==
    [serial_no |-> serial_no, max_voltage |-> d.MaxOutputVoltage,
     jogsteps |-> d.jogStep, cvoltage |-> d.output]

\* Mutant of the connections setupConnections makes: increase and decrease
\* exchanged on every button.
InitialConnections_exchanged ==
    [b \in JogButtons |->
        CASE b = "buttonMoveLeft" -> Slot("decreaseVoltage", "x")
          [] b = "buttonMoveRight" -> Slot("increaseVoltage", "x")
          [] b = "buttonMoveUp" -> Slot("decreaseVoltage", "y")
          [] b = "buttonMoveDown" -> Slot("increaseVoltage", "y")]

\* Ui.setupConnections: the jog buttons' connections, and the connect and
\* enable buttons hidden.
InitialConnections ==
    [b \in JogButtons |->
        CASE b = "buttonMoveLeft" -> Slot("increaseVoltage", "x")
          [] b = "buttonMoveRight" -> Slot("decreaseVoltage", "x")
          [] b = "buttonMoveUp" -> Slot("increaseVoltage", "y")
          [] b = "buttonMoveDown" -> Slot("decreaseVoltage", "y")]

InitialVisible ==
    [b \in LifeButtons |-> b \notin {"buttonConnectX", "buttonEnableX",
                                     "buttonConnectY", "buttonEnableY"}]

\* No exception: the shape of an exception object of Exceptions.py.
NoError == [type |-> "none", count |-> 0, attempt |-> "", actual |-> <<>>]

Idle(op) == [op |-> op, axis |-> "x", text |-> NoText, calls |-> <<>>,
             ret |-> "nothing", exc |-> "none"]

Init ==
    \E vx \in InitVoltages, vy \in InitVoltages, jx \in InitJogSteps, jy \in InitJogSteps :
        /\ device = [s \in Serials |-> IF s = SerialX THEN NewDevice(vx, jx)
                                                      ELSE NewDevice(vy, jy)]
        /\ KPZ101_x = NewKPZ101(SerialX, NewDevice(vx, jx))
        /\ KPZ101_y = NewKPZ101(SerialY, NewDevice(vy, jy))
        /\ direction_stateX = TRUE
        /\ direction_stateY = TRUE
        /\ clicked = InitialConnections
        /\ enabled = [b \in JogButtons |-> TRUE]
        /\ visible = InitialVisible
        /\ focus \in Axes
        /\ last = Idle("__init__")
        /\ deviceList = <<SerialX, SerialY>>
        /\ saved = <<SerialX, SerialY>>
        /\ app = "running"
        /\ stopped = [a \in Axes |-> FALSE]
        /\ err = NoError
        /\ leaked = {}
        /\ settling = "none"
        /\ pending = << >>
        /\ connections = [g \in Signals |-> 1]
        /\ timerActive = TRUE
        /\ popupOpen = FALSE

----------------------------------------------------------------------------
(* The actions: one per signal the event loop delivers. *)

\* Mutant of Commit: one device behind both KPZ101 objects.
Commit_sharedDevice(a, c, op, text) ==
    /\ device' = [s \in DOMAIN device |-> c.d]
    /\ KPZ101_x' = IF a = "x" THEN c.k ELSE KPZ101_x
    /\ KPZ101_y' = IF a = "y" THEN c.k ELSE KPZ101_y
    /\ last' = [op |-> op, axis |-> a, text |-> text, calls |-> c.calls,
                ret |-> c.ret, exc |-> c.exc]

\* The handler of axis a ended in context c.
Commit(a, c, op, text) ==
    /\ device' = [device EXCEPT ![Kpz(a).serial_no] = c.d]
    /\ KPZ101_x' = IF a = "x" THEN c.k ELSE KPZ101_x
    /\ KPZ101_y' = IF a = "y" THEN c.k ELSE KPZ101_y
    /\ last' = [op |-> op, axis |-> a, text |-> text, calls |-> c.calls,
                ret |-> c.ret, exc |-> c.exc]

DisconnectButton(a) == IF a = "x" THEN "buttonDisconnectX" ELSE "buttonDisconnectY"
ConnectButton(a) == IF a = "x" THEN "buttonConnectX" ELSE "buttonConnectY"
DisableButton(a) == IF a = "x" THEN "buttonDisableX" ELSE "buttonDisableY"
EnableButton(a) == IF a = "x" THEN "buttonEnableX" ELSE "buttonEnableY"

\* Mutants of the timeout: the jog limits checked before the voltage is read;
\* the tick given up at the first axis that is not connected.
Timeout_interlockFirst ==
    LET en1 == checkJogLimitX(enabled, Start("x"), direction_stateX)
        cx == Ui_update(Start("x"))
        en2 == checkJogLimitY(en1, Start("y"), direction_stateY)
        cy == Ui_update(Start("y"))
    IN  /\ KPZ101_x' = cx.k
        /\ KPZ101_y' = cy.k
        /\ enabled' = en2
        /\ last' = Idle("timeout")
        /\ UNCHANGED <<device, direction_stateX, direction_stateY, clicked, visible, focus, registry>>

Timeout_stopsAtSkip ==
    LET cx == Ui_update(Start("x"))
        en1 == checkJogLimitX(enabled, cx, direction_stateX)
        cy == IF KPZ101_isConnected(Start("x")) THEN Ui_update(Start("y")) ELSE Start("y")
        en2 == IF KPZ101_isConnected(Start("x"))
               THEN checkJogLimitY(en1, cy, direction_stateY) ELSE en1
    IN  /\ KPZ101_x' = cx.k
        /\ KPZ101_y' = cy.k
        /\ enabled' = en2
        /\ last' = Idle("timeout")
        /\ UNCHANGED <<device, direction_stateX, direction_stateY, clicked, visible, focus, registry>>

\* QTimer.timeout: update(kpzx), checkJogLimitX, update(kpzy), checkJogLimitY,
\* in the order setupConnections connected them.
Timeout ==
    LET cx == Ui_update(Start("x"))
        en1 == checkJogLimitX(enabled, cx, direction_stateX)
        cy == Ui_update(Start("y"))
        en2 == checkJogLimitY(en1, cy, direction_stateY)
    IN  /\ KPZ101_x' = cx.k
        /\ KPZ101_y' = cy.k
        /\ enabled' = en2
        /\ last' = Idle("timeout")
        /\ UNCHANGED <<device, direction_stateX, direction_stateY, clicked, visible, focus, registry>>

\* A click on an enabled jog button runs the slot connected to it.
ClickJog(b) ==
    /\ clicked[b].axis = focus
    /\ enabled[b]
    /\ LET s == clicked[b]
           c == IF s.slot = "increaseVoltage"
                THEN Ui_increaseVoltage(Start(s.axis))
                ELSE Ui_decreaseVoltage(Start(s.axis))
       IN  Commit(s.axis, c, s.slot, NoText)
    /\ UNCHANGED <<direction_stateX, direction_stateY, clicked, enabled, visible, focus, registry>>

ClickSetZero(a) ==
    /\ a = focus
    /\ Commit(a, Ui_setZero(Start(a)), "setZero", NoText)
    /\ UNCHANGED <<direction_stateX, direction_stateY, clicked, enabled, visible, focus, registry>>

ReturnPressedSetV(a, text) ==
    /\ a = focus
    /\ Commit(a, Ui_setVoltage(Start(a), text), "setVoltage", text)
    /\ UNCHANGED <<direction_stateX, direction_stateY, clicked, enabled, visible, focus, registry>>

ReturnPressedSetJ(a, text) ==
    /\ a = focus
    /\ Commit(a, Ui_setJogStep(Start(a), text), "setJogStep", text)
    /\ UNCHANGED <<direction_stateX, direction_stateY, clicked, enabled, visible, focus, registry>>

\* The hide() and show() follow the command: they are skipped when it raises.
ClickDisconnect(a) ==
    /\ a = focus
    /\ visible[DisconnectButton(a)]
    /\ LET c == Ui_disconnectPiezo(Start(a))
       IN  /\ Commit(a, c, "disconnectPiezo", NoText)
           /\ visible' = IF c.exc = "none"
                         THEN [visible EXCEPT ![DisconnectButton(a)] = FALSE,
                                              ![ConnectButton(a)] = TRUE]
                         ELSE visible
    /\ UNCHANGED <<direction_stateX, direction_stateY, clicked, enabled, focus, registry>>

ClickConnect(a) ==
    /\ a = focus
    /\ visible[ConnectButton(a)]
    /\ LET c == Ui_connectPiezo(Start(a))
       IN  /\ Commit(a, c, "connectPiezo", NoText)
           /\ visible' = IF c.exc = "none"
                         THEN [visible EXCEPT ![DisconnectButton(a)] = TRUE,
                                              ![ConnectButton(a)] = FALSE]
                         ELSE visible
    /\ UNCHANGED <<direction_stateX, direction_stateY, clicked, enabled, focus, registry>>

ClickEnable(a) ==
    /\ a = focus
    /\ visible[EnableButton(a)]
    /\ LET c == Ui_enablePiezo(Start(a))
       IN  /\ Commit(a, c, "enablePiezo", NoText)
           /\ visible' = IF c.exc = "none"
                         THEN [visible EXCEPT ![EnableButton(a)] = FALSE,
                                              ![DisableButton(a)] = TRUE]
                         ELSE visible
    /\ UNCHANGED <<direction_stateX, direction_stateY, clicked, enabled, focus, registry>>

ClickDisable(a) ==
    /\ a = focus
    /\ visible[DisableButton(a)]
    /\ LET c == Ui_disablePiezo(Start(a))
       IN  /\ Commit(a, c, "disablePiezo", NoText)
           /\ visible' = IF c.exc = "none"
                         THEN [visible EXCEPT ![DisableButton(a)] = FALSE,
                                              ![EnableButton(a)] = TRUE]
                         ELSE visible
    /\ UNCHANGED <<direction_stateX, direction_stateY, clicked, enabled, focus, registry>>

\* Mutant of the click on the x switch: the jog limits are checked again with
\* the new flag.
ClickSwitchX_rechecks ==
    /\ focus = "x"
    /\ clicked' = switchDirectionX(clicked, direction_stateX)
    /\ direction_stateX' = ~direction_stateX
    /\ enabled' = checkJogLimitX(enabled, Start("x"), ~direction_stateX)
    /\ last' = Idle("switchDirectionX")
    /\ UNCHANGED <<device, KPZ101_x, KPZ101_y, direction_stateY, visible, focus, registry>>

ClickSwitchX ==
    /\ focus = "x"
    /\ clicked' = switchDirectionX(clicked, direction_stateX)
    /\ direction_stateX' = ~direction_stateX
    /\ last' = Idle("switchDirectionX")
    /\ UNCHANGED <<device, KPZ101_x, KPZ101_y, direction_stateY, enabled, visible, focus, registry>>

ClickSwitchY ==
    /\ focus = "y"
    /\ clicked' = switchDirectionY(clicked, direction_stateY)
    /\ direction_stateY' = ~direction_stateY
    /\ last' = [Idle("switchDirectionY") EXCEPT !.axis = "y"]
    /\ UNCHANGED <<device, KPZ101_x, KPZ101_y, direction_stateX, enabled, visible, focus, registry>>

Next ==
    \/ Timeout
    \/ \E b \in JogButtons : ClickJog(b)
    \/ \E a \in Axes : ClickSetZero(a)
    \/ \E a \in Axes, text \in VoltageTexts : ReturnPressedSetV(a, text)
    \/ \E a \in Axes, text \in JogStepTexts : ReturnPressedSetJ(a, text)
    \/ \E a \in Axes : ClickDisconnect(a)
    \/ \E a \in Axes : ClickConnect(a)
    \/ \E a \in Axes : ClickEnable(a)
    \/ \E a \in Axes : ClickDisable(a)
    \/ ClickSwitchX
    \/ ClickSwitchY

Spec == Init /\ [][Next]_vars

----------------------------------------------------------------------------
(* Construction, stop and the device enumeration (KPZ101.py, Exceptions.py) *)

\* Exceptions.DeviceCountError(count)
DeviceCountError(count) ==
    [type |-> "DeviceCountError", count |-> count, attempt |-> "", actual |-> <<>>]

\* Exceptions.MisMatchSerialError(attempt, actual): self.actual keeps
\* actual[0] and actual[1].
MisMatchSerialError(attempt, actual) ==
    [type |-> "MisMatchSerialError", count |-> 0, attempt |-> attempt,
     actual |-> <<actual[1], actual[2]>>]

\* What Python raises that Exceptions.py does not define.
Builtin(type) == [type |-> type, count |-> 0, attempt |-> "", actual |-> <<>>]

\* The exceptions that are ValueErrors: what "except ValueError" catches.
IsValueError(e) == e.type \in {"DeviceCountError", "MisMatchSerialError", "ValueError"}

Range(seq) == {seq[i] : i \in 1..Len(seq)}

\* DeviceManagerCLI.IsDeviceConnected(serial_no) on the enumeration dl.
IsDeviceConnected(serial_no, dl) == serial_no \in Range(dl)

\* Mutant of catchNotEnoughDevices: one device is enough.
catchNotEnoughDevices_oneIsEnough(dl) ==
    LET i == Len(dl) IN IF i < 1 THEN DeviceCountError(i) ELSE NoError

\* KPZ101.catchNotEnoughDevices: the exception it raises, NoError when none.
catchNotEnoughDevices(dl) ==
    LET i == Len(dl) IN IF i <= 1 THEN DeviceCountError(i) ELSE NoError

\* KPZ101.catchMisMatchedSerial: the list it would report is built from
\* GetDeviceList()[0] and GetDeviceList[1]; the second subscripts the method
\* itself and raises TypeError before MisMatchSerialError is constructed.
catchMisMatchedSerial(serial_no, dl) ==
    IF ~IsDeviceConnected(serial_no, dl) THEN Builtin("TypeError") ELSE NoError

\* A KPZ101 object that does not exist (None).
None == [serial_no |-> "None", max_voltage |-> 0, jogsteps |-> 0, cvoltage |-> 0]

\* Mutant of initialConnect: the output is enabled before polling starts.
KPZ101_initialConnect_enablesFirst(c) ==
    IF c.exc # "none" THEN c
    ELSE LET c1 == IF ~c.d.IsConnected
                   THEN IF ~c.d.plugged
                        THEN Raise(Log(c, "Connect", 0, 0), "DeviceNotReady")
                        ELSE [Log(c, "Connect", 0, 0) EXCEPT !.d.IsConnected = TRUE]
                   ELSE c
         IN  device_WaitForSettingsInitialized(
                 device_StartPolling(device_EnableDevice(c1)))

\* KPZ101.initialConnect on the new handle.
KPZ101_initialConnect(c) ==
    IF c.exc # "none" THEN c
    ELSE LET c1 == IF ~c.d.IsConnected
                   THEN IF ~c.d.plugged
                        THEN Raise(Log(c, "Connect", 0, 0), "DeviceNotReady")
                        ELSE [Log(c, "Connect", 0, 0) EXCEPT !.d.IsConnected = TRUE]
                   ELSE c
         IN  device_WaitForSettingsInitialized(
                 device_EnableDevice(device_StartPolling(c1)))

\* What a constructor hands back: the context it ended in (c.k the new object,
\* c.d its device, c.calls what it asked of the driver) and the exception
\* object it raised.
Constructed(c, e) == [c |-> Raise(c, e.type), err |-> e]

\* Mutant of __init__: the handle is created and connected before the checks.
KPZ101_init_opensFirst(serial_no, dl, d) ==
    LET c1 == KPZ101_initialConnect(Log(Ctx(None, d), "CreateKCubePiezo", 0, 0))
        e1 == catchNotEnoughDevices(dl)
        e2 == catchMisMatchedSerial(serial_no, dl)
    IN  IF e1.type # "none" THEN Constructed(c1, e1)
        ELSE IF e2.type # "none" THEN Constructed(c1, e2)
        ELSE IF c1.exc # "none" THEN [c |-> c1, err |-> Builtin(c1.exc)]
        ELSE [c |-> [c1 EXCEPT !.k = NewKPZ101(serial_no, c1.d)], err |-> NoError]

\* KPZ101.__init__(serial_no), with dl the enumeration BuildDeviceList made
\* and d the controller of that serial.
KPZ101_init(serial_no, dl, d) ==
    LET c0 == Ctx(None, d)
        e1 == catchNotEnoughDevices(dl)
        e2 == catchMisMatchedSerial(serial_no, dl)
    IN  IF e1.type # "none" THEN Constructed(c0, e1)
        ELSE IF e2.type # "none" THEN Constructed(c0, e2)
        ELSE IF Len(dl) < 1 THEN Constructed(c0, Builtin("Exception"))
        ELSE LET c1 == KPZ101_initialConnect(Log(c0, "CreateKCubePiezo", 0, 0))
             IN  IF c1.exc # "none" THEN [c |-> c1, err |-> Builtin(c1.exc)]
                 ELSE [c |-> [c1 EXCEPT !.k = NewKPZ101(serial_no, c1.d)],
                       err |-> NoError]

\* KPZ101.stop
KPZ101_stop(c) ==
    Return(device_Disconnect(device_StopPolling(device_DisableDevice(c))))

----------------------------------------------------------------------------
(* class Ui (GUI.py): construction, serial reassignment and shutdown *)

\* The enumerations a run may start from, the serial pairs serials.json may
\* hold at startup and the pairs the operator may save from the popup.
DeviceLists == {<< >>, <<SerialX>>, <<SerialX, SerialY>>, <<SerialX, SerialY, SerialZ>>}
SavedSerials == {<<SerialX, SerialY>>, <<SerialZ, SerialY>>, <<SerialY, SerialY>>}
NewSerials == {<<SerialX, SerialY>>, <<SerialY, SerialX>>,
               <<SerialZ, SerialY>>, <<SerialX, SerialZ>>}

\* The controllers whose settings are not initialized when the wait is over.
Sluggish == {{}, {SerialZ}}

\* A controller no handle has opened yet.
Unopened(isPlugged, isReady) ==
    [IsConnected |-> FALSE, IsEnabled |-> TRUE, polling |-> FALSE,
     target |-> 0, output |-> 0, jogStep |-> 1, MaxOutputVoltage |-> MaxVoltage,
     plugged |-> isPlugged, IsSettingsInitialized |-> isReady]

\* A jog button before setupConnections has connected it.
NoSlot == Slot("none", "x")

\* Ui.initializeKPZs(serial_x, serial_y) on the enumeration dl and the
\* controllers dev: both objects are replaced only when both constructors
\* return.  A ValueError is caught and printed; anything else propagates (exc).
\* A first object whose partner failed is dropped with its handle open.
initializeKPZs(serial_x, serial_y, dl, dev, kx, ky) ==
    LET tx == KPZ101_init(serial_x, dl, dev[serial_x])
        dev1 == [dev EXCEPT ![serial_x] = tx.c.d]
        ty == KPZ101_init(serial_y, dl, dev1[serial_y])
        dev2 == [dev1 EXCEPT ![serial_y] = ty.c.d]
        caught(e) == IF IsValueError(e) THEN "none" ELSE e.type
        \* the controllers opened by objects that are dropped: what the
        \* handle the window holds reports stays as it was
        dropped(after, which) ==
            [s \in DOMAIN after |->
                IF s \in which
                THEN [after[s] EXCEPT !.IsConnected = dev[s].IsConnected,
                                      !.polling = dev[s].polling]
                ELSE after[s]]
        opened(t, s) == IF t.c.calls # << >> THEN {s} ELSE {}
    IN  IF tx.err.type # "none"
        THEN [device |-> dropped(dev1, opened(tx, serial_x)),
              kx |-> kx, ky |-> ky, built |-> FALSE,
              err |-> tx.err, exc |-> caught(tx.err),
              leaked |-> opened(tx, serial_x), calls |-> tx.c.calls]
        ELSE IF ty.err.type # "none"
        THEN [device |-> dropped(dev2, {serial_x} \cup opened(ty, serial_y)),
              kx |-> kx, ky |-> ky, built |-> FALSE,
              err |-> ty.err, exc |-> caught(ty.err),
              leaked |-> {serial_x} \cup opened(ty, serial_y),
              calls |-> tx.c.calls \o ty.c.calls]
        ELSE [device |-> dev2,
              kx |-> tx.c.k, ky |-> ty.c.k, built |-> TRUE,
              err |-> NoError, exc |-> "none", leaked |-> {},
              calls |-> tx.c.calls \o ty.c.calls]

\* Ui.setupConnections on the widgets: the connect and enable buttons hidden;
\* the other buttons stay as they are.
setupConnections_hide(vis) ==
    [b \in LifeButtons |->
        IF b \in {"buttonConnectX", "buttonEnableX", "buttonConnectY", "buttonEnableY"}
        THEN FALSE ELSE vis[b]]

\* Ui.__init__: loadSerials, initializeKPZs, setupConnections.  With no
\* KPZ101 object made, setupConnections reads getJogSteps of None and raises
\* AttributeError after the horizontal widgets are connected; the window is
\* then never shown.
Startup ==
    /\ UNCHANGED <<loop, wiring>>
    /\ app = "starting"
    /\ LET r == initializeKPZs(saved[1], saved[2], deviceList, device, KPZ101_x, KPZ101_y)
           exc == IF r.exc # "none" THEN r.exc
                  ELSE IF ~r.built THEN "AttributeError" ELSE "none"
       IN  /\ device' = r.device
           /\ KPZ101_x' = r.kx
           /\ KPZ101_y' = r.ky
           /\ err' = r.err
           /\ leaked' = leaked \cup r.leaked
           /\ app' = IF exc = "none" THEN "running" ELSE "crashed"
           /\ clicked' = IF exc = "none" THEN InitialConnections
                         ELSE IF r.exc = "none"
                         THEN [clicked EXCEPT
                                 !["buttonMoveLeft"] = InitialConnections["buttonMoveLeft"],
                                 !["buttonMoveRight"] = InitialConnections["buttonMoveRight"]]
                         ELSE clicked
           /\ visible' = IF exc = "none" THEN setupConnections_hide(visible)
                         ELSE IF r.exc = "none"
                         THEN [visible EXCEPT !["buttonConnectX"] = FALSE,
                                              !["buttonEnableX"] = FALSE]
                         ELSE visible
           /\ last' = [Idle("__init__") EXCEPT !.calls = r.calls, !.exc = exc]
    /\ UNCHANGED <<direction_stateX, direction_stateY, enabled, focus,
                   deviceList, saved, stopped>>

\* What may be pulled while a handler sleeps: nothing, or one controller.
Pulled == {{}} \cup {{s} : s \in Range(deviceList)}

\* Ui.saveFromPopup(new_serials): the popup's Save.  The two stop() calls
\* take two seconds; unplugged are the controllers pulled in that time, which
\* the enumeration the constructors build no longer lists.
saveFromPopup(new_serials, unplugged) ==
    /\ app = "running"
    /\ LET serials == <<KPZ101_x.serial_no, KPZ101_y.serial_no>>
           sx == KPZ101_stop(Start("x"))
           dev1 == [device EXCEPT ![serials[1]] = sx.d]
           sy == KPZ101_stop(Ctx(KPZ101_y, dev1[serials[2]]))
           dev2 == [dev1 EXCEPT ![serials[2]] = sy.d]
           dl == SelectSeq(deviceList, LAMBDA t : t \notin unplugged)
           dev3 == [s \in DOMAIN dev2 |->
                      IF s \in unplugged
                      THEN [dev2[s] EXCEPT !.plugged = FALSE, !.IsConnected = FALSE,
                                           !.polling = FALSE]
                      ELSE dev2[s]]
           r == initializeKPZs(new_serials[1], new_serials[2], dl, dev3,
                               KPZ101_x, KPZ101_y)
           done(op, calls, exc) == [Idle(op) EXCEPT !.calls = calls, !.exc = exc]
       IN  IF new_serials = serials
           THEN /\ unplugged = {}
                /\ saved' = new_serials
                /\ last' = Idle("saveFromPopup")
                /\ err' = NoError
                /\ UNCHANGED <<device, KPZ101_x, KPZ101_y, direction_stateX,
                               direction_stateY, clicked, enabled, visible, focus,
                               deviceList, app, stopped, leaked>>
           ELSE IF sx.exc # "none"
           THEN /\ unplugged = {}
                /\ device' = dev1
                /\ last' = done("saveFromPopup", sx.calls, sx.exc)
                /\ err' = NoError
                /\ UNCHANGED <<KPZ101_x, KPZ101_y, direction_stateX, direction_stateY,
                               clicked, enabled, visible, focus,
                               deviceList, saved, app, stopped, leaked>>
           ELSE IF sy.exc # "none"
           THEN /\ unplugged = {}
                /\ device' = dev2
                /\ stopped' = [stopped EXCEPT !["x"] = TRUE]
                /\ last' = done("saveFromPopup", sx.calls \o sy.calls, sy.exc)
                /\ err' = NoError
                /\ UNCHANGED <<KPZ101_x, KPZ101_y, direction_stateX, direction_stateY,
                               clicked, enabled, visible, focus,
                               deviceList, saved, app, leaked>>
           ELSE /\ device' = r.device
                /\ KPZ101_x' = r.kx
                /\ KPZ101_y' = r.ky
                /\ stopped' = [a \in Axes |-> ~r.built]
                /\ err' = r.err
                /\ leaked' = leaked \cup r.leaked
                /\ last' = done("saveFromPopup", sx.calls \o sy.calls \o r.calls, r.exc)
                /\ IF r.exc # "none"
                   THEN UNCHANGED <<direction_stateX, direction_stateY, clicked,
                                    visible, saved>>
                   ELSE /\ clicked' = InitialConnections
                        /\ direction_stateX' = TRUE
                        /\ direction_stateY' = TRUE
                        /\ visible' = setupConnections_hide(visible)
                        /\ saved' = new_serials
                /\ deviceList' = dl
                /\ UNCHANGED <<enabled, focus, app>>

\* Ui.closeEvent: each controller is connected again if it is not, then
\* stopped.  The close event is accepted unless a handler ignores it.
closeEvent ==
    /\ UNCHANGED <<loop, wiring>>
    /\ app = "running"
    /\ LET again(c) == IF ~KPZ101_isConnected(c) THEN KPZ101_connect(c) ELSE c
           cx == KPZ101_stop(again(Start("x")))
           dev1 == [device EXCEPT ![KPZ101_x.serial_no] = cx.d]
           cy0 == Ctx(KPZ101_y, dev1[KPZ101_y.serial_no])
           cy == IF cx.exc = "none" THEN KPZ101_stop(again(cy0)) ELSE Raise(cy0, cx.exc)
       IN  /\ device' = [dev1 EXCEPT ![KPZ101_y.serial_no] = cy.d]
           /\ stopped' = [stopped EXCEPT !["x"] = @ \/ cx.exc = "none",
                                         !["y"] = @ \/ cy.exc = "none"]
           /\ last' = [Idle("closeEvent") EXCEPT !.calls = cx.calls \o cy.calls,
                                                 !.exc = cy.exc]
    /\ app' = "closed"
    /\ UNCHANGED <<KPZ101_x, KPZ101_y, direction_stateX, direction_stateY, clicked,
                   enabled, visible, focus, deviceList, saved, err, leaked>>

\* A controller is unplugged: it leaves the enumeration and the handle that
\* had it open is no longer connected.
Unplug(s) ==
    /\ UNCHANGED <<loop, wiring>>
    /\ app = "running"
    /\ s \in Range(deviceList)
    /\ deviceList' = SelectSeq(deviceList, LAMBDA t : t # s)
    /\ device' = [device EXCEPT ![s].plugged = FALSE, ![s].IsConnected = FALSE,
                                ![s].polling = FALSE]
    /\ last' = Idle("unplug")
    /\ UNCHANGED <<KPZ101_x, KPZ101_y, direction_stateX, direction_stateY, clicked,
                   enabled, visible, focus, saved, app, stopped, err, leaked>>

InitLife ==
    \E dl \in DeviceLists, sv \in SavedSerials, slow \in Sluggish :
        /\ device = [s \in AllSerials |-> Unopened(s \in Range(dl), s \notin slow)]
        /\ KPZ101_x = None
        /\ KPZ101_y = None
        /\ direction_stateX = TRUE
        /\ direction_stateY = TRUE
        /\ clicked = [b \in JogButtons |-> NoSlot]
        /\ enabled = [b \in JogButtons |-> TRUE]
        /\ visible = [b \in LifeButtons |-> TRUE]
        /\ focus \in Axes
        /\ last = Idle("main")
        /\ deviceList = dl
        /\ saved = sv
        /\ app = "starting"
        /\ stopped = [a \in Axes |-> FALSE]
        /\ err = NoError
        /\ leaked = {}
        /\ settling = "none"
        /\ pending = << >>
        /\ connections = [g \in Signals |-> 1]
        /\ timerActive = TRUE
        /\ popupOpen = FALSE

\* Startup, reassignment, unplugging and shutdown, and between them the
\* timer and the controls that connect, disconnect, zero and flip an axis.
NextLife ==
    \/ Startup
    \/ \E n \in NewSerials, u \in Pulled :
            saveFromPopup(n, u) /\ UNCHANGED <<loop, wiring>>
    \/ closeEvent
    \/ \E s \in AllSerials : Unplug(s)
    \/ app = "running" /\ Timeout
    \/ \E a \in Axes : app = "running" /\ ClickSetZero(a)
    \/ \E a \in Axes : app = "running" /\ ClickDisconnect(a)
    \/ \E a \in Axes : app = "running" /\ ClickConnect(a)
    \/ app = "running" /\ ClickSwitchX
    \/ app = "running" /\ ClickSwitchY

SpecLife == InitLife /\ [][NextLife]_vars

----------------------------------------------------------------------------
(* KPZ101.jogVoltage on its own: the object holds any reading the device    *)
(* may have given it, a little outside the band included.                    *)

JogReadings == (0 - 1)..(MaxVoltage + 1)
JogTargets == 0..MaxVoltage
JogSteps == {1, 2}

InitJog ==
    \E r \in JogReadings, t \in JogTargets, j \in JogSteps :
        LET d == [NewDevice(t, j) EXCEPT !.output = r]
        IN  /\ device = [s \in Serials |-> d]
            /\ KPZ101_x = NewKPZ101(SerialX, d)
            /\ KPZ101_y = NewKPZ101(SerialY, d)
            /\ direction_stateX = TRUE
            /\ direction_stateY = TRUE
            /\ clicked = InitialConnections
            /\ enabled = [b \in JogButtons |-> TRUE]
            /\ visible = InitialVisible
            /\ focus \in Axes
            /\ last = Idle("__init__")
            /\ deviceList = <<SerialX, SerialY>>
            /\ saved = <<SerialX, SerialY>>
            /\ app = "running"
            /\ stopped = [a \in Axes |-> FALSE]
            /\ err = NoError
            /\ leaked = {}
            /\ settling = "none"
            /\ pending = << >>
            /\ connections = [g \in Signals |-> 1]
            /\ timerActive = TRUE
            /\ popupOpen = FALSE

\* kpz.jogVoltage(boolean) called on the object of axis a; the record keeps
\* the voltage the object held when it was called.
jogVoltage(a, boolean) ==
    /\ a = focus
    /\ Commit(a, KPZ101_jogVoltage(Start(a), boolean),
              IF boolean THEN "jogVoltage(True)" ELSE "jogVoltage(False)",
              Numeric(KPZ101_getVoltage(Kpz(a))))
    /\ UNCHANGED <<direction_stateX, direction_stateY, clicked, enabled, visible,
                   focus, registry>>

NextJog == \E a \in Axes, boolean \in BOOLEAN : jogVoltage(a, boolean)

SpecJog == InitJog /\ [][NextJog]_vars

----------------------------------------------------------------------------
(* The event loop around the handlers that sleep (main.py: app.exec_()) *)

\* How many events may wait in the queue.
MaxPending == 2

\* What the operator types while this is watched.
SettleVoltageTexts == {Numeric(2), Numeric(MaxVoltage + 1)}
SettleJogStepTexts == {Numeric(2)}

Event(op, a, text) == [op |-> op, axis |-> a, text |-> text]

\* The timer's timeout: one event for the four slots connected to it.
TimerEvent == Event("timeout", "both", NoText)

\* returnPressed of the four line edits.
Inputs ==
    {Event("setVoltage", a, t) : a \in Axes, t \in SettleVoltageTexts}
        \cup {Event("setJogStep", a, t) : a \in Axes, t \in SettleJogStepTexts}

\* The KPZ101 command the handler of event e calls.
Command(e, c) ==
    IF e.op = "setVoltage" THEN KPZ101_setVoltage(c, e.text.value)
                           ELSE KPZ101_setJogSteps(c, e.text.value)

\* setVoltage and setJogSteps sleep after the command they have sent, and
\* only then.
Slept(c) == c.exc = "none" /\ c.calls # << >>

\* What the handler does when the KPZ101 command has returned.
Finish(e, c) ==
    IF e.op = "setVoltage" THEN Ui_update(c)
    ELSE IF c.exc = "none" THEN Raise(c, "AttributeError") ELSE c

\* What the steps of the event loop leave alone.
offLoop == <<direction_stateX, direction_stateY, clicked, visible, focus,
             deviceList, saved, app, stopped, err, leaked, wiring>>

\* The event loop delivers e: the timeout runs its four slots; a handler runs
\* up to its time.sleep(), or to its end when it does not sleep.
Handle(e) ==
    IF e.op = "timeout"
    THEN LET cx == Ui_update(Start("x"))
             en1 == checkJogLimitX(enabled, cx, direction_stateX)
             cy == Ui_update(Start("y"))
             en2 == checkJogLimitY(en1, cy, direction_stateY)
         IN  /\ KPZ101_x' = cx.k
             /\ KPZ101_y' = cy.k
             /\ enabled' = en2
             /\ last' = Idle("timeout")
             /\ settling' = "none"
             /\ UNCHANGED device
    ELSE LET c == Command(e, Start(e.axis))
         IN  /\ Commit(e.axis, IF Slept(c) THEN c ELSE Finish(e, c), e.op, e.text)
             /\ settling' = IF Slept(c) THEN e.axis ELSE "none"
             /\ UNCHANGED enabled

\* An event arrives while the loop is idle and is delivered at once.
Enter(e) ==
    /\ settling = "none"
    /\ pending = << >>
    /\ Handle(e)
    /\ UNCHANGED <<pending, offLoop>>

\* An event arrives while a handler sleeps: it waits in the queue.  A timeout
\* that is already waiting is not posted again.
Post(e) ==
    /\ settling # "none"
    /\ Len(pending) < MaxPending
    /\ e = TimerEvent => \A i \in 1..Len(pending) : pending[i] # TimerEvent
    /\ pending' = Append(pending, e)
    /\ UNCHANGED <<device, KPZ101_x, KPZ101_y, enabled, last, settling, offLoop>>

\* The sleep is over: the handler runs to its end and returns to the loop.
Wake ==
    /\ settling # "none"
    /\ LET e == Event(last.op, settling, last.text)
           c == [Start(settling) EXCEPT !.calls = last.calls, !.ret = last.ret]
       IN  Commit(settling, Finish(e, c), last.op, last.text)
    /\ settling' = "none"
    /\ UNCHANGED <<enabled, pending, offLoop>>

\* The loop is idle again and delivers the event that has waited longest.
Dispatch ==
    /\ settling = "none"
    /\ pending # << >>
    /\ Handle(Head(pending))
    /\ pending' = Tail(pending)
    /\ UNCHANGED offLoop

NextSettle ==
    \/ \E e \in Inputs \cup {TimerEvent} : Enter(e)
    \/ \E e \in Inputs \cup {TimerEvent} : Post(e)
    \/ Wake
    \/ Dispatch

SpecSettle == Init /\ [][NextSettle]_vars

----------------------------------------------------------------------------
(* The serial popup, the timer and the connections of the signals           *)
(* (GUI.py: openPopup, SerialNumberPopup, resetConnections)                  *)

\* How many connections a signal may gather.
MaxConnections == 2

\* One run of a slot, as the log of a handler shows it.
Invoked(slot) == [call |-> slot, arg |-> 0, from |-> 0]

\* resetConnections followed by setupConnections: a signal that was not
\* disconnected has one connection more.
Reconnected(conn) ==
    [g \in Signals |-> IF g \in KeptSignals THEN conn[g] + 1 ELSE 1]

\* Mutant of the menu action: the timer is left running.
TriggerChangeSerial_timerRuns ==
    /\ app = "running"
    /\ popupOpen' = TRUE
    /\ last' = [Idle("openPopup") EXCEPT
                  !.calls = [i \in 1..connections["actionChangeSerial"] |->
                               Invoked("openPopup")]]
    /\ UNCHANGED <<device, KPZ101_x, KPZ101_y, direction_stateX, direction_stateY,
                   clicked, enabled, visible, focus, deviceList, saved, app,
                   stopped, err, leaked, loop, connections, timerActive>>

\* actionChangeSerial.triggered: openPopup, once for each connection.  Each
\* run stops the timer and shows a new popup in place of the one before.
TriggerChangeSerial ==
    /\ app = "running"
    /\ timerActive' = FALSE
    /\ popupOpen' = TRUE
    /\ last' = [Idle("openPopup") EXCEPT
                  !.calls = [i \in 1..connections["actionChangeSerial"] |->
                               Invoked("openPopup")]]
    /\ UNCHANGED <<device, KPZ101_x, KPZ101_y, direction_stateX, direction_stateY,
                   clicked, enabled, visible, focus, deviceList, saved, app,
                   stopped, err, leaked, loop, connections>>

\* The popup's Cancel, or its window closed: SerialNumberPopup.closeEvent runs
\* the function openPopup gave it, which starts the timer.
PopupCancel ==
    /\ popupOpen
    /\ popupOpen' = FALSE
    /\ timerActive' = TRUE
    /\ last' = Idle("closePopup")
    /\ UNCHANGED <<device, KPZ101_x, KPZ101_y, direction_stateX, direction_stateY,
                   clicked, enabled, visible, focus, deviceList, saved, app,
                   stopped, err, leaked, loop, connections>>

\* The popup's Save: saveClicked runs saveFromPopup, then the popup closes.
\* setupConnections has run again when the serials differed and nothing was
\* raised.
PopupSave(new_serials, unplugged) ==
    /\ popupOpen
    /\ saveFromPopup(new_serials, unplugged)
    /\ LET again == /\ new_serials # <<KPZ101_x.serial_no, KPZ101_y.serial_no>>
                    /\ last'.exc = "none"
       IN  /\ again => \A g \in KeptSignals : connections[g] < MaxConnections
           /\ connections' = IF again THEN Reconnected(connections) ELSE connections
    /\ popupOpen' = FALSE
    /\ timerActive' = TRUE
    /\ UNCHANGED loop

\* The timer fires while it is active.
Tick == timerActive /\ Timeout

RECURSIVE SetZeroTimes(_, _)
\* The slot of a Set Zero button run n times, each run on its own.
SetZeroTimes(c, n) ==
    IF n = 0 THEN c
    ELSE LET c1 == SetZeroTimes(c, n - 1)
             c2 == Ui_setZero([c1 EXCEPT !.exc = "none"])
         IN  [c2 EXCEPT !.exc = IF c2.exc # "none" THEN c2.exc ELSE c1.exc]

SetZeroButton(a) == IF a = "x" THEN "buttonSetZeroX" ELSE "buttonSetZeroY"

\* buttonSetZero.clicked: setZero, once for each connection.
ClickSetZeroConnected(a) ==
    /\ app = "running"
    /\ Commit(a, SetZeroTimes(Start(a), connections[SetZeroButton(a)]), "setZero", NoText)
    /\ UNCHANGED <<direction_stateX, direction_stateY, clicked, enabled, visible,
                   focus, registry>>

\* The window as a startup that built both objects leaves it; the third
\* controller may be on the bus, unopened.
InitPopup ==
    \E dl \in {<<SerialX, SerialY>>, <<SerialX, SerialY, SerialZ>>},
       vx \in InitVoltages, vy \in InitVoltages, jx \in InitJogSteps, jy \in InitJogSteps :
        /\ device = [s \in AllSerials |->
                        IF s = SerialX THEN NewDevice(vx, jx)
                        ELSE IF s = SerialY THEN NewDevice(vy, jy)
                        ELSE Unopened(s \in Range(dl), TRUE)]
        /\ KPZ101_x = NewKPZ101(SerialX, NewDevice(vx, jx))
        /\ KPZ101_y = NewKPZ101(SerialY, NewDevice(vy, jy))
        /\ direction_stateX = TRUE
        /\ direction_stateY = TRUE
        /\ clicked = InitialConnections
        /\ enabled = [b \in JogButtons |-> TRUE]
        /\ visible = InitialVisible
        /\ focus \in Axes
        /\ last = Idle("__init__")
        /\ deviceList = dl
        /\ saved = <<SerialX, SerialY>>
        /\ app = "running"
        /\ stopped = [a \in Axes |-> FALSE]
        /\ err = NoError
        /\ leaked = {}
        /\ settling = "none"
        /\ pending = << >>
        /\ connections = [g \in Signals |-> 1]
        /\ timerActive = TRUE
        /\ popupOpen = FALSE

NextPopup ==
    \/ TriggerChangeSerial
    \/ PopupCancel
    \/ \E n \in NewSerials, u \in Pulled : PopupSave(n, u)
    \/ Tick
    \/ \E a \in Axes : ClickSetZeroConnected(a)

SpecPopup == InitPopup /\ [][NextPopup]_vars

----------------------------------------------------------------------------
(* Properties *)

Dev(a) == device[Kpz(a).serial_no]

\* The last handler sent this command to the driver.
Sent(call, arg) ==
    \E i \in 1..Len(last.calls) : last.calls[i].call = call /\ last.calls[i].arg = arg

VoltageInRange(a, v) == 0 <= v /\ v <= Kpz(a).max_voltage
JogStepInRange(s) == 0 <= s /\ s <= 10

\* The last handler was setVoltage, given a number.
SetVoltageRan == last.op = "setVoltage" /\ last.text.numeric
SetJogStepRan == last.op = "setJogStep" /\ last.text.numeric

ButtonsFor(a, slot) == {b \in JogButtons : clicked[b] = Slot(slot, a)}

\* Axis a was polled by the timeout that ran last.
Polled(a) == last.op = "timeout" /\ KPZ101_isConnected(Ctx(Kpz(a), Dev(a)))

NearZero(a) == KPZ101_getVoltage(Kpz(a)) <= KPZ101_getJogSteps(Kpz(a))
NearCeiling(a) ==
    KPZ101_getVoltage(Kpz(a)) + KPZ101_getJogSteps(Kpz(a)) >= Dev(a).MaxOutputVoltage

DecreaseOffIncreaseOn(a) ==
    /\ ButtonsFor(a, "decreaseVoltage") # {}
    /\ ButtonsFor(a, "increaseVoltage") # {}
    /\ \A b \in ButtonsFor(a, "decreaseVoltage") : ~enabled[b]
    /\ \A b \in ButtonsFor(a, "increaseVoltage") : enabled[b]

IncreaseOffDecreaseOn(a) ==
    /\ ButtonsFor(a, "decreaseVoltage") # {}
    /\ ButtonsFor(a, "increaseVoltage") # {}
    /\ \A b \in ButtonsFor(a, "increaseVoltage") : ~enabled[b]
    /\ \A b \in ButtonsFor(a, "decreaseVoltage") : enabled[b]

\* C5: after a poll tick of a connected axis whose observed voltage is <= its
\* jog step, the button connected to decreaseVoltage is disabled and the one
\* connected to increaseVoltage is enabled, whatever the direction flag.
C5_NearZeroInterlock ==
    \A a \in Axes : (Polled(a) /\ NearZero(a)) => DecreaseOffIncreaseOn(a)

C5_Witness ==
    /\ Polled("x") /\ NearZero("x") /\ ~NearCeiling("x")
    /\ ~direction_stateX
    /\ Kpz("x").cvoltage = 1
    /\ ~enabled["buttonMoveLeft"]

\* C6: after a poll tick of a connected axis whose observed voltage is > its
\* jog step with voltage + jog step >= max_voltage, the button connected to
\* increaseVoltage is disabled and the one connected to decreaseVoltage is
\* enabled, whatever the direction flag.
C6_NearCeilingInterlock ==
    \A a \in Axes :
        (Polled(a) /\ ~NearZero(a) /\ NearCeiling(a)) => IncreaseOffDecreaseOn(a)

C6_Witness ==
    /\ Polled("y") /\ ~NearZero("y")
    /\ Kpz("y").cvoltage + Kpz("y").jogsteps = MaxVoltage
    /\ ~direction_stateY
    /\ ~enabled["buttonMoveDown"]

\* C7: after a poll tick of a connected axis with jog step < observed voltage
\* and voltage + jog step < max_voltage, both jog buttons are enabled.
C7_MidRangeBothAllowed ==
    \A a \in Axes :
        (Polled(a) /\ ~NearZero(a) /\ ~NearCeiling(a))
            => \A b \in JogButtons : clicked[b].axis = a => enabled[b]

C7_Witness ==
    /\ Polled("x") /\ ~NearZero("x") /\ ~NearCeiling("x")
    /\ Kpz("x").jogsteps = 1
    /\ enabled["buttonMoveLeft"] /\ enabled["buttonMoveRight"]

\* C8: after a poll tick of a connected axis for which both voltage <= jog
\* step and voltage + jog step >= max_voltage hold, the result is the
\* near-zero one: decrease disabled, increase enabled.
C8_NearZeroFirst ==
    \A a \in Axes :
        (Polled(a) /\ NearZero(a) /\ NearCeiling(a)) => DecreaseOffIncreaseOn(a)

C8_Witness ==
    /\ Polled("y") /\ NearZero("y") /\ NearCeiling("y")
    /\ Kpz("y").cvoltage > 0
    /\ ~enabled["buttonMoveDown"] /\ enabled["buttonMoveUp"]

\* C9, as claimed: a jog issued by a click on an enabled jog button never
\* steps the device's voltage below 0 or above max_voltage.
C9_NoJogOutOfRange ==
    (last.op \in {"increaseVoltage", "decreaseVoltage"})
        => \A i \in 1..Len(last.calls) :
              last.calls[i].call = "Jog"
                  => /\ last.calls[i].from + last.calls[i].arg >= 0
                     /\ last.calls[i].from + last.calls[i].arg
                            <= Dev(last.axis).MaxOutputVoltage

\* C10: switchDirection applied twice leaves the jog buttons' connections and
\* the direction flag as they were, on either axis.
C10_ToggleTwice ==
    /\ LET cl1 == switchDirectionX(clicked, direction_stateX)
           d1 == ~direction_stateX
       IN  /\ switchDirectionX(cl1, d1) = clicked
           /\ (~d1) = direction_stateX
           /\ cl1 # clicked
    /\ LET cl1 == switchDirectionY(clicked, direction_stateY)
           d1 == ~direction_stateY
       IN  /\ switchDirectionY(cl1, d1) = clicked
           /\ (~d1) = direction_stateY
           /\ cl1 # clicked

C10_Witness ==
    /\ last.op = "switchDirectionY"
    /\ direction_stateY
    /\ clicked = InitialConnections
    /\ Kpz("y").cvoltage > 0

----------------------------------------------------------------------------
(* Properties of the direction wiring, of stop and of construction *)

\* What a click on jog button b asks of the driver: the connected slot run on
\* a connected controller in mid-range.
Issues(b) ==
    LET d == NewDevice(1, 1)
        c0 == Ctx(NewKPZ101(SerialX, d), d)
        c == IF clicked[b].slot = "increaseVoltage" THEN Ui_increaseVoltage(c0)
             ELSE IF clicked[b].slot = "decreaseVoltage" THEN Ui_decreaseVoltage(c0)
             ELSE c0
    IN  IF c.calls = << >> \/ c.calls[1].call # "Jog" THEN "nothing"
        ELSE IF c.calls[1].arg > 0 THEN "Increase" ELSE "Decrease"

\* The two buttons of an axis issue these jogs, on that axis.
Wired(incButton, decButton, a, flag) ==
    /\ clicked[incButton].axis = a
    /\ clicked[decButton].axis = a
    /\ Issues(incButton) = (IF flag THEN "Increase" ELSE "Decrease")
    /\ Issues(decButton) = (IF flag THEN "Decrease" ELSE "Increase")

\* C11: while the window runs, whatever toggles and reassignments came
\* before, each axis's buttons agree with its direction flag: with the flag
\* true the increase-labelled button (Left, Up) issues Jog(Increase) and the
\* decrease-labelled one (Right, Down) Jog(Decrease); with the flag false they
\* are exchanged.
C11_WiringAgreesWithFlag ==
    app = "running" =>
        /\ Wired("buttonMoveLeft", "buttonMoveRight", "x", direction_stateX)
        /\ Wired("buttonMoveUp", "buttonMoveDown", "y", direction_stateY)

\* C11 witness: the axes were reassigned to exchanged serials and the
\* horizontal axis toggled afterwards.
C11_Witness ==
    /\ app = "running"
    /\ KPZ101_x.serial_no = SerialY
    /\ KPZ101_y.serial_no = SerialX
    /\ ~direction_stateX
    /\ last.op = "switchDirectionX"

\* The last step was a call of KPZ101.jogVoltage.
JogVoltageRan == last.op \in {"jogVoltage(True)", "jogVoltage(False)"}

\* C12: jogVoltage(boolean) sends the device a jog only when the voltage the
\* object holds is within [0, max_voltage], and then exactly one Jog, Increase
\* for True and Decrease for False; when the held voltage is outside the band
\* it sends nothing and the device's voltage stays.
C12_JogOnlyInBand ==
    JogVoltageRan =>
        LET observed == last.text.value
            inBand == 0 <= observed /\ observed <= Kpz(last.axis).max_voltage
        IN  /\ inBand =>
                  /\ Len(last.calls) = 1
                  /\ last.calls[1].call = "Jog"
                  /\ (last.op = "jogVoltage(True)") = (last.calls[1].arg > 0)
                  /\ Dev(last.axis).target =
                        Clamp(last.calls[1].from + last.calls[1].arg, MaxVoltage)
            /\ ~inBand => last.calls = << >>

\* C12 witness: a jog down was sent with 0 V held, the lower edge of the band.
C12_Witness ==
    /\ last.op = "jogVoltage(False)"
    /\ last.text.value = 0
    /\ Len(last.calls) = 1
    /\ last.calls[1].arg < 0

\* The handle of axis a is as stop() leaves it: disconnected, not polling.
AsStopped(a) == ~Dev(a).IsConnected /\ ~Dev(a).polling

\* C13, as claimed: once stop() has run on the KPZ101 object an axis holds,
\* nothing that follows (a connect, a close, a reassignment) brings that same
\* object's handle back: it stays disconnected and unpolled.
C13_StoppedIsTerminal ==
    \A a \in Axes : stopped[a] => AsStopped(a)

\* C14, as claimed: stop() on an object that is already stopped succeeds and
\* raises nothing.  saveFromPopup calls stop() on the horizontal object first
\* whenever the serials it is given differ from the ones in use.
C14_SecondStopSucceeds ==
    [][\A n \in NewSerials, u \in Pulled :
          (/\ stopped["x"]
           /\ n # <<KPZ101_x.serial_no, KPZ101_y.serial_no>>
           /\ saveFromPopup(n, u))
          => last'.exc # "DeviceNotReady"]_vars

\* The handlers that are commands to one axis.
AxisCommands == {"setVoltage", "setJogStep", "increaseVoltage", "decreaseVoltage",
                 "setZero", "connectPiezo", "disconnectPiezo", "enablePiezo",
                 "disablePiezo"}

\* C15, as claimed: a command given to an axis whose object is stopped
\* returns CommandRejected and changes nothing: the handle stays as stop()
\* left it.
C15_CommandsRejectedAfterStop ==
    (last.op \in AxisCommands /\ stopped[last.axis]) =>
        (last.ret = "CommandRejected" /\ AsStopped(last.axis))

\* The constructor, called for serial s in the state as it is.
Construct(s) == KPZ101_init(s, deviceList, device[s])

\* C16: with fewer than two controllers enumerated a construction raises
\* DeviceCountError whose count is the number enumerated (0 for none, 1 for
\* one); with two or more it raises no DeviceCountError.  Stated of the
\* constructor in every state reached and of the startup that has just run.
C16_DeviceCountError ==
    LET n == Len(deviceList)
    IN  /\ \A s \in AllSerials :
              /\ n < 2 => Construct(s).err = DeviceCountError(n)
              /\ n >= 2 => Construct(s).err.type # "DeviceCountError"
        /\ last.op = "__init__" =>
              /\ n < 2 => (err = DeviceCountError(n) /\ app = "crashed")
              /\ n >= 2 => err.type # "DeviceCountError"

\* C16 witness: the startup found one controller and its constructor raised
\* DeviceCountError with count 1.
C16_Witness ==
    /\ last.op = "__init__"
    /\ Len(deviceList) = 1
    /\ err.type = "DeviceCountError"
    /\ err.count = 1

\* One of the two checks of the constructor fails for serial s.
CheckFails(s) ==
    \/ catchNotEnoughDevices(deviceList).type # "none"
    \/ catchMisMatchedSerial(s, deviceList).type # "none"

\* C17: the count check and the serial check come before any handle is made:
\* a construction in which either fails has asked nothing of the driver, has
\* made no object and leaves the controller as it was.  Stated of the
\* constructor in every state reached and of a startup whose first
\* constructor failed a check.
C17_ChecksBeforeOpen ==
    /\ \A s \in AllSerials :
          CheckFails(s) =>
              /\ Construct(s).c.calls = << >>
              /\ Construct(s).c.d = device[s]
              /\ Construct(s).c.k = None
              /\ Construct(s).err.type # "none"
    /\ (last.op = "__init__" /\ CheckFails(saved[1])) =>
          /\ last.calls = << >>
          /\ \A s \in AllSerials : ~device[s].IsConnected /\ ~device[s].polling
          /\ KPZ101_x = None /\ KPZ101_y = None

\* C17 witness: the startup asked for a serial that is not among the two
\* enumerated; nothing was opened.
C17_Witness ==
    /\ last.op = "__init__"
    /\ Len(deviceList) = 2
    /\ ~IsDeviceConnected(saved[1], deviceList)
    /\ app = "crashed"
    /\ last.calls = << >>

\* The serials the last startup asked for that are not enumerated.
NotEnumerated == {s \in {saved[1], saved[2]} : ~IsDeviceConnected(s, deviceList)}

\* The startup has just run with enough controllers enumerated.
StartupRan == last.op = "__init__" /\ Len(deviceList) >= 2

\* C18, as claimed: with enough controllers enumerated, construction fails
\* with MisMatchSerialError exactly when the serial asked for is not among
\* them, and the error's attempt is that serial; when both serials asked for
\* are enumerated no error is raised.
C18_MisMatchRaised ==
    StartupRan =>
        /\ NotEnumerated # {} =>
              (err.type = "MisMatchSerialError" /\ err.attempt \in NotEnumerated)
        /\ NotEnumerated = {} => err = NoError

\* C19, as claimed: the error raised for a serial that is not enumerated
\* carries, as actual, the whole enumeration, however many controllers there
\* are and also when only one of the two serials asked for is missing.
C19_ActualIsWholeList ==
    (StartupRan /\ NotEnumerated # {}) => err.actual = deviceList

\* C20, as claimed: a DeviceCountError or MisMatchSerialError raised by a
\* constructor during startup or reassignment comes out of that operation as
\* the same typed failure; it is not caught and dropped with the operation
\* going on.
C20_TypedFailureSurfaces ==
    (last.op \in {"__init__", "saveFromPopup"}
        /\ err.type \in {"DeviceCountError", "MisMatchSerialError"})
    => last.exc = err.type

----------------------------------------------------------------------------
(* Properties of the settings wait *)

\* The last handler waited for a controller's settings and they were not
\* initialized when the wait was over.
SettingsTimedOut == Sent("WaitForSettingsInitialized", 10000)

\* A controller is open (through the handle the window holds or one that was
\* dropped) and its output enabled while its settings are not initialized.
LiveUninitialized(s) ==
    /\ ~device[s].IsSettingsInitialized
    /\ device[s].IsEnabled
    /\ device[s].IsConnected \/ s \in leaked

\* C21, as claimed: when the settings are still not initialized after the
\* 10-second wait of a construction or a connect, the attempt fails with
\* TimeoutError, and no controller is left connected and enabled with its
\* settings uninitialized.
C21_TimeoutIsFatal ==
    SettingsTimedOut =>
        /\ last.exc = "TimeoutError"
        /\ \A s \in DOMAIN device : ~LiveUninitialized(s)

\* The object the window holds for the i-th serial of the pair.
Held(i) == IF i = 1 THEN KPZ101_x ELSE KPZ101_y

\* C22, as claimed: when the construction of one axis fails at startup on the
\* settings wait, the other axis, whose controller is enumerated and whose
\* settings initialize, is constructed all the same and the window runs.
C22_OtherAxisConstructed ==
    (last.op = "__init__" /\ SettingsTimedOut) =>
        \A i \in {1, 2} :
            (device[saved[i]].IsSettingsInitialized
                /\ IsDeviceConnected(saved[i], deviceList))
            => /\ Held(i) # None
               /\ Held(i).serial_no = saved[i]
               /\ device[saved[i]].IsConnected
               /\ app = "running"

----------------------------------------------------------------------------
(* Properties of the poll tick and of the frame of the commands *)

\* The jog buttons of axis a.
AxisButtons(a) ==
    IF a = "x" THEN {"buttonMoveLeft", "buttonMoveRight"}
               ELSE {"buttonMoveUp", "buttonMoveDown"}

\* The jog buttons of axis a are enabled as its stored voltage requires.
InterlockAgrees(a) ==
    IF NearZero(a) THEN DecreaseOffIncreaseOn(a)
    ELSE IF NearCeiling(a) THEN IncreaseOffDecreaseOn(a)
    ELSE \A b \in AxisButtons(a) : enabled[b]

\* What a poll tick does to axis a: connected, the stored voltage becomes the
\* voltage at the output and the jog buttons follow that voltage; not
\* connected, the stored voltage and the jog buttons stay and nothing raises.
Ticked(a) ==
    IF Dev(a).IsConnected
    THEN /\ Kpz(a)'.cvoltage = Dev(a).output
         /\ InterlockAgrees(a)'
    ELSE /\ Kpz(a)' = Kpz(a)
         /\ \A b \in AxisButtons(a) : enabled'[b] = enabled[b]
         /\ Ui_update(Start(a)).exc = "none"

\* C23: on each poll tick, for each axis: if it is connected, the voltage is
\* refreshed and the interlock is computed on the refreshed voltage; if it is
\* not connected, neither runs, the observed voltage and the interlock
\* booleans are unchanged and no error is raised.
C23_TickRefreshesThenInterlocks ==
    [][last'.op = "timeout" => \A a \in Axes : Ticked(a)]_vars

\* A tick has read 0 at the output of the disabled x axis, whose remembered
\* voltage is 2, and has switched the decreasing button off.
C23_Witness ==
    /\ last.op = "timeout"
    /\ Dev("x").IsConnected /\ ~Dev("x").IsEnabled
    /\ Dev("x").target = 2
    /\ Kpz("x").cvoltage = 0
    /\ DecreaseOffIncreaseOn("x")

PerAxisCommands ==
    {"setVoltage", "setJogStep", "increaseVoltage", "decreaseVoltage", "setZero",
     "enablePiezo", "disablePiezo", "connectPiezo", "disconnectPiezo",
     "switchDirectionX", "switchDirectionY"}

Direction(a) == IF a = "x" THEN direction_stateX ELSE direction_stateY

\* The connect, disconnect, enable and disable buttons of axis a.
AxisLifeButtons(a) ==
    {DisconnectButton(a), ConnectButton(a), DisableButton(a), EnableButton(a)}

\* Nothing of axis o changes in the step: its KPZ101 object (observed voltage,
\* jog step, maximum), its controller, its direction flag, its jog buttons and
\* its connect/enable buttons.
AxisUntouched(o) ==
    /\ Kpz(o)' = Kpz(o)
    /\ Dev(o)' = Dev(o)
    /\ Direction(o)' = Direction(o)
    /\ \A b \in AxisButtons(o) : enabled'[b] = enabled[b] /\ clicked'[b] = clicked[b]
    /\ \A b \in AxisLifeButtons(o) : visible'[b] = visible[b]

\* C27: a command applied to one axis (setVoltage, setJogStep, jog, zero,
\* enable, disable, connect, disconnect, toggleDirection) leaves the other
\* axis's observed voltage, jog step, max_voltage, lifecycle state, direction
\* flag and interlock booleans unchanged.
C27_OtherAxisUntouched ==
    [][last'.op \in PerAxisCommands =>
        \A a \in Axes : last'.axis = a => \A o \in Axes \ {a} : AxisUntouched(o)]_vars

\* setVoltage(2) has moved the x axis; the y axis is where it was constructed.
C27_Witness ==
    /\ last.op = "setVoltage" /\ last.axis = "x"
    /\ Sent("SetOutputVoltage", 2)
    /\ Dev("x").target = 2 /\ Kpz("x").cvoltage = 2
    /\ Dev("y").target = 0 /\ Kpz("y").cvoltage = 0

\* The step is the handler op on axis a.
Ran(op, a) == last'.op = op /\ last'.axis = a

\* C28, as claimed: disconnect() and connect() leave the axis's output-enabled
\* state unchanged.
C28_OutputStateKept ==
    [][\A a \in Axes : (Ran("disconnectPiezo", a) \/ Ran("connectPiezo", a)) =>
        Dev(a)'.IsEnabled = Dev(a).IsEnabled]_vars

\* C28, amended: disconnect() leaves the axis's output-enabled state
\* unchanged; a connect() that returns has enabled the output, whatever it was
\* before.
C28_ConnectEnablesOutput ==
    [][\A a \in Axes :
        /\ Ran("disconnectPiezo", a) => Dev(a)'.IsEnabled = Dev(a).IsEnabled
        /\ (Ran("connectPiezo", a) /\ last'.exc = "none") =>
            /\ Dev(a)'.IsEnabled
            /\ \E i \in 1..Len(last'.calls) : last'.calls[i].call = "EnableDevice"]_vars

\* connect() has returned on the x axis, which was disabled before it was
\* disconnected (the enable button is still the one shown): its output is
\* enabled.
C28_Witness ==
    /\ last.op = "connectPiezo" /\ last.axis = "x" /\ last.exc = "none"
    /\ visible["buttonEnableX"]
    /\ Dev("x").IsConnected /\ Dev("x").IsEnabled

\* C29: enable() after disable() issues no voltage write and no zero command
\* and leaves the device's remembered voltage unchanged, so that a jog issued
\* right after it moves one jog step from the voltage before the disable.
C29_EnableKeepsTarget ==
    [][\A a \in Axes : (Ran("enablePiezo", a) /\ last'.exc = "none") =>
        LET up == KPZ101_jogVoltage(Ctx(Kpz(a)', Dev(a)'), TRUE)
            down == KPZ101_jogVoltage(Ctx(Kpz(a)', Dev(a)'), FALSE)
        IN  /\ last'.calls = <<[call |-> "EnableDevice", arg |-> 0, from |-> 0]>>
            /\ Dev(a)'.target = Dev(a).target
            /\ Dev(a)'.output = Dev(a).output
            /\ up.d.target = Clamp(Dev(a).target + Dev(a).jogStep, Dev(a).MaxOutputVoltage)
            /\ down.d.target = Clamp(Dev(a).target - Dev(a).jogStep, Dev(a).MaxOutputVoltage)]_vars

\* The x axis, set to 2 and disabled, has been enabled again: the output
\* reads 0 and the controller remembers 2.
C29_Witness ==
    /\ last.op = "enablePiezo" /\ last.axis = "x" /\ last.exc = "none"
    /\ Dev("x").IsEnabled
    /\ Dev("x").target = 2 /\ Dev("x").output = 0
    /\ Dev("x").jogStep = 1

\* C30, as claimed: once the window has been closed, each controller that is
\* still plugged in is in the stopped state: output disabled, polling
\* stopped, disconnected.
C30_CloseStopsBoth ==
    app = "closed" =>
        \A a \in Axes : Dev(a).plugged =>
            /\ ~Dev(a).IsEnabled
            /\ ~Dev(a).polling
            /\ ~Dev(a).IsConnected

----------------------------------------------------------------------------
(* Properties of the settle wait *)

\* The events that wait while a handler sleeps.
Waiting == IF settling = "none" THEN {} ELSE {pending[i] : i \in 1..Len(pending)}

\* C25, as claimed: while an axis is settling after a command, a new command
\* to that axis is rejected and is not queued: no command to the settling
\* axis waits behind the one in flight.
C25_NotQueuedWhileSettling ==
    \A e \in Waiting : e.op = "timeout" \/ e.axis # settling

\* C26, as claimed: a command to one axis, its settle wait included, never
\* delays a command or a poll tick of the other axis: while an axis is
\* settling, neither a timeout nor a command to the other axis is waiting.
C26_OtherAxisNeverWaits ==
    \A e \in Waiting : e.op # "timeout" /\ e.axis = settling

----------------------------------------------------------------------------
(* Properties of construction, reassignment and the popup *)

\* The names of the driver calls in a log, in order.
CallNames(calls) == [i \in 1..Len(calls) |-> calls[i].call]

\* What a constructor that succeeds asks of the driver, on a controller that
\* was (or was not) connected before.
OpenSequence(wasConnected) ==
    IF wasConnected
    THEN <<"CreateKCubePiezo", "StartPolling", "EnableDevice">>
    ELSE <<"CreateKCubePiezo", "Connect", "StartPolling", "EnableDevice">>

\* C31: a construction that succeeds opens the device, connects it if it is
\* not connected, starts polling, enables the output and finds the settings
\* initialized, in this order; max_voltage, jog step and voltage are read from
\* the device as it is after that; the axis ends connected, polling, enabled
\* and with its settings initialized.  A startup that succeeds has done so
\* for both axes (the second finds its controller connected when both axes
\* were given one serial).
C31_ConstructionOrder ==
    /\ \A s \in AllSerials :
        LET r == Construct(s) IN
        r.err.type = "none" =>
            /\ CallNames(r.c.calls) = OpenSequence(device[s].IsConnected)
            /\ r.c.d.IsConnected /\ r.c.d.polling /\ r.c.d.IsEnabled
            /\ r.c.d.IsSettingsInitialized
            /\ r.c.k = NewKPZ101(s, r.c.d)
    /\ (last.op = "__init__" /\ app = "running") =>
            /\ CallNames(last.calls) =
                   OpenSequence(FALSE) \o OpenSequence(KPZ101_x.serial_no = KPZ101_y.serial_no)
            /\ \A a \in Axes :
                /\ Dev(a).IsConnected /\ Dev(a).polling /\ Dev(a).IsEnabled
                /\ Dev(a).IsSettingsInitialized
                /\ Kpz(a) = NewKPZ101(Kpz(a).serial_no, Dev(a))

\* Startup has constructed both controllers, the third one on the x axis.
C31_Witness ==
    /\ last.op = "__init__" /\ app = "running"
    /\ KPZ101_x.serial_no = SerialZ /\ KPZ101_y.serial_no = SerialY
    /\ Len(last.calls) = 8
    /\ Dev("x").polling /\ Dev("y").polling

\* C32, as claimed: when a reassignment has finished, whether its validation
\* succeeded or failed, the saved record {serialX, serialY} names the serials
\* of the controllers the window holds for x and y.
C32_SavedIsHeld ==
    last.op = "saveFromPopup" => saved = <<KPZ101_x.serial_no, KPZ101_y.serial_no>>

\* The two jog buttons of axis a have exchanged their connections.
Exchanged(a) ==
    \A b \in AxisButtons(a) : \A o \in AxisButtons(a) \ {b} : clicked'[b] = clicked[o]

C36_IndicationAgrees ==
    \A a \in Axes :
        /\ visible[DisableButton(a)] = Dev(a).IsEnabled
        /\ visible[EnableButton(a)] = ~Dev(a).IsEnabled

\* The constructor of the first serial returned in the last startup or
\* reassignment and the one of the second serial raised: one handle was
\* created and the last call enabled it, or two handles were created.
CreateCalls == {i \in 1..Len(last.calls) : last.calls[i].call = "CreateKCubePiezo"}

SecondFailedAlone ==
    /\ last.op \in {"__init__", "saveFromPopup"}
    /\ err.type # "none"
    /\ \/ Cardinality(CreateCalls) = 2
       \/ /\ Cardinality(CreateCalls) = 1
          /\ last.calls[Len(last.calls)].call = "EnableDevice"

\* C37, as claimed: when the second constructor fails after the first has
\* succeeded, no controller is left open by an object the window does not
\* hold.
C37_FirstNotOrphaned ==
    SecondFailedAlone => leaked = {}

\* C39, as claimed: setJogStep of the window, given a value in range on a
\* connected axis, completes without error and the stored jog step is the
\* value given.
C39_SetJogStepCompletes ==
    (SetJogStepRan /\ JogStepInRange(last.text.value) /\ Dev(last.axis).IsConnected)
        => /\ last.exc = "none"
           /\ KPZ101_getJogSteps(Kpz(last.axis)) = last.text.value

\* C38, as claimed: the two axes never hold controllers for one serial.
C38_DistinctSerials ==
    (KPZ101_x # None /\ KPZ101_y # None) => KPZ101_x.serial_no # KPZ101_y.serial_no

----------------------------------------------------------------------------
(* Properties of the popup and of the connections *)

\* C33: while the serial popup is open no poll tick fires, and the timer runs
\* again once the popup has closed, whatever the popup was opened for and
\* however it was closed.
C33_NoTickWhilePopupOpen ==
    [][/\ last'.op = "timeout" => ~popupOpen
       /\ popupOpen' => ~timerActive'
       /\ ~popupOpen' => timerActive']_vars

\* The popup was opened, the two serials were exchanged and saved, the popup
\* closed and the timer has fired since.
C33_Witness ==
    /\ last.op = "timeout"
    /\ ~popupOpen /\ timerActive
    /\ saved = <<SerialY, SerialX>>
    /\ KPZ101_x.serial_no = SerialY /\ Dev("x").IsConnected

\* C35, as claimed: whatever came before, serial reassignments included, one
\* activation of a control runs its command exactly once.
C35_OneActivationOneCommand ==
    /\ last.op = "openPopup" => last.calls = <<Invoked("openPopup")>>
    /\ (last.op = "setZero" /\ last.exc = "none") =>
            Cardinality({i \in 1..Len(last.calls) : last.calls[i].call = "SetZero"}) = 1

====
